---- MODULE Spec2Model ----
(***************************************************************************)
(* Model of src/src/lib.rs: the wasm entry point start() and the WebGL     *)
(* context calls it makes.  Every context call is one step of the          *)
(* sequential program; `calls` records the calls in the order issued.      *)
(* The graphics context, the browser and the shader compiler are outside   *)
(* the program: their answers are nondeterministic choices.                *)
(*                                                                         *)
(* f32 literals are written in tenths (0.5 is 5, 1.0 is 10, 0.6 is 6).     *)
(* A u32 is the pair <<hi, lo>> of its 16-bit halves.                      *)
(***************************************************************************)
EXTENDS Integers, Sequences, FiniteSets, TLC

VARIABLES
    pc,                 \* <<function, next context call>> of start()
    context,            \* start: what init_context() gave: "unset", "Ok", "Err" or "panic"
    result,             \* "running", "ok", "err" (Err returned), "panic" (unwrap failed)
    error,              \* the error text carried by an Err, or NoError
    calls,              \* the context calls issued so far, in order
    shaders,            \* context: shader objects, by handle
    programs,           \* context: program objects, by handle
    buffers,            \* context: buffer objects, by handle
    array_buffer,       \* context: the buffer bound to ARRAY_BUFFER
    current_program,    \* context: the program in use
    shader,             \* load_shader: local `shader`
    vert_shader,        \* start: local `vert_shader`
    frag_shader,        \* start: local `frag_shader`
    program,            \* init_shader_program / ProgramInfo::new: local `program`
    attrib_locations,   \* ProgramInfo::new: local map, then field of program_info
    uniform_locations,  \* ProgramInfo::new: local map, then field of program_info
    program_info,       \* start: local `program_info` (the handle of its program), or NoHandle
    positions_buffer,   \* init_buffers: local `buffer`, then start: `positions_buffer`
    camera              \* start: local `camera`

glvars == <<shaders, programs, buffers, array_buffer, current_program>>
shadervars == <<shader, vert_shader, frag_shader>>
infovars == <<program, attrib_locations, uniform_locations, program_info>>
vars == <<pc, context, result, error, calls, glvars, shadervars, infovars, positions_buffer, camera>>

----------------------------------------------------------------------------
\* Bounds of the model

\* attribute slots the context may assign are 0..MaxSlot
MaxSlot == 1
\* number of distinct non-empty diagnostic texts the context may produce
NumLogs == 1

----------------------------------------------------------------------------
\* Values

NoHandle == 0
NoError == "none"
None == "None"
\* `camera` before Camera::new()
NoCamera == [position |-> <<0, 0, 0>>, orientation |-> "uninit"]

Diagnostics ==
    << "ERROR: 0:1: syntax error",
       "ERROR: 0:2: undeclared identifier",
       "ERROR: 0:3: type mismatch" >>

\* the texts an info log may hold; the empty text is one of them
LogTexts == {""} \cup {Diagnostics[i] : i \in 1..NumLogs}

\* `x as u32` for an i32 x (two's complement), as 16-bit halves
AsU32(x) ==
    LET lo == x % 65536
        hi == ((x - lo) \div 65536) % 65536
    IN  <<hi, lo>>

vertex_count == 4

\* three corners only: one triangle instead of the quad
verticesTriangle == << -5, 5, 0,   5, 5, 0,   -5, -5, 0 >>

vertices == << -5, 5, 0,  5, 5, 0,   -5, -5, 0,   5, -5, 0 >>

colour == <<0, 10, 6, 10>>

model_view_matrix == << 5, 0, 0, 0,   0, 10, 0, 0,   0, 0, 10, 0,   0, 0, 0, 10 >>

Identity == << 10, 0, 0, 0,   0, 10, 0, 0,   0, 0, 10, 0,   0, 0, 0, 10 >>

\* The uniform names a linked program may expose
UniformNames == {"u_colour", "u_model_view_matrix"}

\* A context call as recorded: the function that issued it, its arguments,
\* its return value and the bindings of the context when it was issued.
Call(op, args, ret) ==
    [op |-> op, fn |-> pc[1], args |-> args, ret |-> ret,
     bound |-> array_buffer, prog |-> current_program]

Issue(op, args, ret) ==
    /\ calls' = Append(calls, Call(op, args, ret))
    /\ UNCHANGED context

Goto(fn, at) == pc' = <<fn, at>>

\* `return Err(msg)` / `?` up to start's caller
ReturnErr(msg) ==
    /\ pc' = <<"start", "done">>
    /\ result' = "err"
    /\ error' = msg

\* a failed unwrap(): the wasm module traps
Panic ==
    /\ pc' = <<"start", "done">>
    /\ result' = "panic"
    /\ error' = NoError

Continue == UNCHANGED <<result, error>>

Init ==
    /\ pc = <<"init_context", "get_context">>
    /\ context = "unset"
    /\ result = "running"
    /\ error = NoError
    /\ calls = <<>>
    /\ shaders = <<>>
    /\ programs = <<>>
    /\ buffers = <<>>
    /\ array_buffer = NoHandle
    /\ current_program = NoHandle
    /\ shader = NoHandle
    /\ vert_shader = NoHandle
    /\ frag_shader = NoHandle
    /\ program = NoHandle
    /\ attrib_locations = [k \in {} |-> "None"]
    /\ uniform_locations = [k \in {} |-> "None"]
    /\ program_info = NoHandle
    /\ positions_buffer = NoHandle
    /\ camera = NoCamera

----------------------------------------------------------------------------
\* init_context

\* What the browser may answer to init_context
InitOutcomes ==
    { [ok |-> TRUE,  kind |-> "context"],
      [ok |-> FALSE, kind |-> "panic"],     \* no window, document, canvas element or "webgl" context: unwrap()
      [ok |-> FALSE, kind |-> "err"] }      \* not a canvas, get_context threw, not a WebGlRenderingContext: `?`

\* init_context() with its error dropped instead of propagated by `?`
InitContextUnchecked ==
    /\ pc = <<"init_context", "get_context">>
    /\ \E o \in InitOutcomes :
         context' = IF o.ok THEN "Ok" ELSE IF o.kind = "panic" THEN "panic" ELSE "Err"
    /\ Goto("load_vert_shader", "create_shader")
    /\ Continue
    /\ UNCHANGED <<calls, glvars, shadervars, infovars, positions_buffer, camera>>

InitContext ==
    /\ pc = <<"init_context", "get_context">>
    /\ \E o \in InitOutcomes :
         IF o.ok
         THEN /\ context' = "Ok"
              /\ Goto("load_vert_shader", "create_shader")
              /\ Continue
         ELSE IF o.kind = "panic"
              THEN context' = "panic" /\ Panic
              ELSE context' = "Err" /\ ReturnErr("JsValue")
    /\ UNCHANGED <<calls, glvars, shadervars, infovars, positions_buffer, camera>>

----------------------------------------------------------------------------
\* load_shader

ShaderTypes == {"VERTEX_SHADER", "FRAGMENT_SHADER"}

LoadFn(t) == IF t = "VERTEX_SHADER" THEN "load_vert_shader" ELSE "load_frag_shader"

\* the source text start() passes for each stage
Source(t) == IF t = "VERTEX_SHADER" THEN "vertex source" ELSE "fragment source"

LoadShaderCreate(t) ==
    /\ pc = <<LoadFn(t), "create_shader">>
    /\ \E ok \in BOOLEAN :
         IF ok
         THEN /\ shaders' = Append(shaders,
                    [type |-> t, source |-> None, status |-> FALSE, log |-> None])
              /\ shader' = Len(shaders) + 1
              /\ Issue("create_shader", <<t>>, Len(shaders) + 1)
              /\ Goto(LoadFn(t), "shader_source")
              /\ Continue
         ELSE /\ Issue("create_shader", <<t>>, NoHandle)
              /\ ReturnErr("Unable to create shader object")
              /\ UNCHANGED <<shaders, shader>>
    /\ UNCHANGED <<programs, buffers, array_buffer, current_program,
                   vert_shader, frag_shader, infovars, positions_buffer, camera>>

LoadShaderSource(t) ==
    /\ pc = <<LoadFn(t), "shader_source">>
    /\ shaders' = [shaders EXCEPT ![shader].source = Source(t)]
    /\ Issue("shader_source", <<shader, Source(t)>>, None)
    /\ Goto(LoadFn(t), "compile_shader")
    /\ Continue
    /\ UNCHANGED <<programs, buffers, array_buffer, current_program,
                   shadervars, infovars, positions_buffer, camera>>

\* the compiler decides the status and the log
LoadShaderCompile(t) ==
    /\ pc = <<LoadFn(t), "compile_shader">>
    /\ \E st \in BOOLEAN, lg \in LogTexts \cup {None} :
         /\ st => lg = ""
         /\ shaders' = [shaders EXCEPT ![shader].status = st, ![shader].log = lg]
    /\ Issue("compile_shader", <<shader>>, None)
    /\ Goto(LoadFn(t), "get_shader_parameter")
    /\ Continue
    /\ UNCHANGED <<programs, buffers, array_buffer, current_program,
                   shadervars, infovars, positions_buffer, camera>>

\* load_shader returning Ok(shader) whatever COMPILE_STATUS says
LoadShaderStatusIgnored(t) ==
    /\ pc = <<LoadFn(t), "get_shader_parameter">>
    /\ Issue("get_shader_parameter", <<shader, "COMPILE_STATUS">>, shaders[shader].status)
    /\ IF t = "VERTEX_SHADER"
       THEN /\ vert_shader' = shader
            /\ Goto("load_frag_shader", "create_shader")
            /\ UNCHANGED frag_shader
       ELSE /\ frag_shader' = shader
            /\ Goto("init_shader_program", "create_program")
            /\ UNCHANGED vert_shader
    /\ Continue
    /\ UNCHANGED <<glvars, shader, infovars, positions_buffer, camera>>

\* COMPILE_STATUS true: Ok(shader), bound by start to vert_shader / frag_shader
LoadShaderStatus(t) ==
    /\ pc = <<LoadFn(t), "get_shader_parameter">>
    /\ Issue("get_shader_parameter", <<shader, "COMPILE_STATUS">>, shaders[shader].status)
    /\ IF shaders[shader].status
       THEN /\ IF t = "VERTEX_SHADER"
               THEN /\ vert_shader' = shader
                    /\ Goto("load_frag_shader", "create_shader")
                    /\ UNCHANGED frag_shader
               ELSE /\ frag_shader' = shader
                    /\ Goto("init_shader_program", "create_program")
                    /\ UNCHANGED vert_shader
       ELSE /\ Goto(LoadFn(t), "get_shader_info_log")
            /\ UNCHANGED <<vert_shader, frag_shader>>
    /\ Continue
    /\ UNCHANGED <<glvars, shader, infovars, positions_buffer, camera>>

\* load_shader reading the log but returning a fixed message
LoadShaderInfoLogDropped(t) ==
    /\ pc = <<LoadFn(t), "get_shader_info_log">>
    /\ Issue("get_shader_info_log", <<shader>>, shaders[shader].log)
    /\ ReturnErr("Unknown error creating shader")
    /\ UNCHANGED <<glvars, shadervars, infovars, positions_buffer, camera>>

LoadShaderInfoLog(t) ==
    /\ pc = <<LoadFn(t), "get_shader_info_log">>
    /\ Issue("get_shader_info_log", <<shader>>, shaders[shader].log)
    /\ ReturnErr(IF shaders[shader].log = None
                 THEN "Unknown error creating shader"
                 ELSE shaders[shader].log)
    /\ UNCHANGED <<glvars, shadervars, infovars, positions_buffer, camera>>

----------------------------------------------------------------------------
\* init_shader_program

\* What the linker may produce: a linked program exposes the attribute
\* a_vertex_position at a slot (or not at all: -1) and some of the uniforms.
LinkOutcomes ==
    { [status |-> TRUE, log |-> "", attrib |-> a, uniforms |-> u] :
        a \in -1..MaxSlot, u \in SUBSET UniformNames }
    \cup
    { [status |-> FALSE, log |-> l, attrib |-> -1, uniforms |-> {}] :
        l \in LogTexts \cup {None} }

InitProgCreate ==
    /\ pc = <<"init_shader_program", "create_program">>
    /\ \E ok \in BOOLEAN :
         IF ok
         THEN /\ programs' = Append(programs,
                    [attached |-> <<>>, status |-> FALSE, log |-> None,
                     attrib |-> -1, uniforms |-> {}])
              /\ program' = Len(programs) + 1
              /\ Issue("create_program", <<>>, Len(programs) + 1)
              /\ Goto("init_shader_program", "attach_vert")
              /\ Continue
         ELSE /\ Issue("create_program", <<>>, NoHandle)
              /\ ReturnErr("Unable to create shader object")
              /\ UNCHANGED <<programs, program>>
    /\ UNCHANGED <<shaders, buffers, array_buffer, current_program, shadervars,
                   attrib_locations, uniform_locations, program_info,
                   positions_buffer, camera>>

InitProgAttach(t) ==
    LET sh == IF t = "VERTEX_SHADER" THEN vert_shader ELSE frag_shader IN
    /\ pc = <<"init_shader_program",
              IF t = "VERTEX_SHADER" THEN "attach_vert" ELSE "attach_frag">>
    /\ programs' = [programs EXCEPT ![program].attached = Append(@, sh)]
    /\ Issue("attach_shader", <<program, sh>>, None)
    /\ Goto("init_shader_program",
            IF t = "VERTEX_SHADER" THEN "attach_frag" ELSE "link_program")
    /\ Continue
    /\ UNCHANGED <<shaders, buffers, array_buffer, current_program,
                   shadervars, infovars, positions_buffer, camera>>

InitProgLink ==
    /\ pc = <<"init_shader_program", "link_program">>
    /\ \E o \in LinkOutcomes :
         programs' = [programs EXCEPT ![program] =
                        [attached |-> @.attached, status |-> o.status, log |-> o.log,
                         attrib |-> o.attrib, uniforms |-> o.uniforms]]
    /\ Issue("link_program", <<program>>, None)
    /\ Goto("init_shader_program", "get_program_parameter")
    /\ Continue
    /\ UNCHANGED <<shaders, buffers, array_buffer, current_program,
                   shadervars, infovars, positions_buffer, camera>>

\* init_shader_program returning Ok(program) whatever LINK_STATUS says
InitProgStatusIgnored ==
    /\ pc = <<"init_shader_program", "get_program_parameter">>
    /\ Issue("get_program_parameter", <<program, "LINK_STATUS">>, programs[program].status)
    /\ Goto("ProgramInfo::new", "get_attrib_location")
    /\ Continue
    /\ UNCHANGED <<glvars, shadervars, infovars, positions_buffer, camera>>

\* LINK_STATUS true: Ok(program), and ProgramInfo::new goes on
InitProgStatus ==
    /\ pc = <<"init_shader_program", "get_program_parameter">>
    /\ Issue("get_program_parameter", <<program, "LINK_STATUS">>, programs[program].status)
    /\ IF programs[program].status
       THEN Goto("ProgramInfo::new", "get_attrib_location")
       ELSE Goto("init_shader_program", "get_program_info_log")
    /\ Continue
    /\ UNCHANGED <<glvars, shadervars, infovars, positions_buffer, camera>>

InitProgInfoLog ==
    /\ pc = <<"init_shader_program", "get_program_info_log">>
    /\ Issue("get_program_info_log", <<program>>, programs[program].log)
    /\ ReturnErr(IF programs[program].log = None
                 THEN "Unknown error creating program object"
                 ELSE programs[program].log)
    /\ UNCHANGED <<glvars, shadervars, infovars, positions_buffer, camera>>

----------------------------------------------------------------------------
\* ProgramInfo::new

EmptyMap == [k \in {} |-> None]

Insert(m, k, v) == [x \in DOMAIN m \cup {k} |-> IF x = k THEN v ELSE m[x]]

\* Option<WebGlUniformLocation>: None is NoLocation
NoLocation == [program |-> NoHandle, name |-> ""]

\* HashMap::get on the uniform map
Get(m, k) == IF k \in DOMAIN m THEN m[k] ELSE NoLocation

\* context.get_attrib_location: the slot, or -1 when the program has no such attribute
GetAttribLocation(p) == programs[p].attrib

\* context.get_uniform_location
GetUniformLocation(p, name) ==
    IF name \in programs[p].uniforms
    THEN [program |-> p, name |-> name]
    ELSE NoLocation

NewGetAttribLocation ==
    /\ pc = <<"ProgramInfo::new", "get_attrib_location">>
    /\ Issue("get_attrib_location", <<program, "a_vertex_position">>, GetAttribLocation(program))
    /\ attrib_locations' = Insert(EmptyMap, "vertex_position", AsU32(GetAttribLocation(program)))
    /\ Goto("ProgramInfo::new", "get_uniform_location colour")
    /\ Continue
    /\ UNCHANGED <<glvars, shadervars, program, uniform_locations, program_info,
                   positions_buffer, camera>>

NewGetUniformColour ==
    /\ pc = <<"ProgramInfo::new", "get_uniform_location colour">>
    /\ Issue("get_uniform_location", <<program, "u_colour">>, GetUniformLocation(program, "u_colour"))
    /\ IF GetUniformLocation(program, "u_colour") = NoLocation
       THEN Panic /\ UNCHANGED uniform_locations
       ELSE /\ uniform_locations' =
                 Insert(EmptyMap, "colour", GetUniformLocation(program, "u_colour"))
            /\ Goto("ProgramInfo::new", "get_uniform_location model_view_matrix")
            /\ Continue
    /\ UNCHANGED <<glvars, shadervars, program, attrib_locations, program_info,
                   positions_buffer, camera>>

\* the last lookup; on success Ok(Self {..}) is bound to start's program_info
NewGetUniformMatrix ==
    /\ pc = <<"ProgramInfo::new", "get_uniform_location model_view_matrix">>
    /\ Issue("get_uniform_location", <<program, "u_model_view_matrix">>,
             GetUniformLocation(program, "u_model_view_matrix"))
    /\ IF GetUniformLocation(program, "u_model_view_matrix") = NoLocation
       THEN Panic /\ UNCHANGED <<uniform_locations, program_info>>
       ELSE /\ uniform_locations' =
                 Insert(uniform_locations, "model_view_matrix",
                        GetUniformLocation(program, "u_model_view_matrix"))
            /\ program_info' = program
            /\ Goto("init_buffers", "create_buffer")
            /\ Continue
    /\ UNCHANGED <<glvars, shadervars, program, attrib_locations,
                   positions_buffer, camera>>

----------------------------------------------------------------------------
\* init_buffers

InitBuffersCreate ==
    /\ pc = <<"init_buffers", "create_buffer">>
    /\ \E ok \in BOOLEAN :
         IF ok
         THEN /\ buffers' = Append(buffers, [data |-> <<>>, usage |-> None])
              /\ positions_buffer' = Len(buffers) + 1
              /\ Issue("create_buffer", <<>>, Len(buffers) + 1)
              /\ Goto("init_buffers", "bind_buffer")
              /\ Continue
         ELSE /\ Issue("create_buffer", <<>>, NoHandle)
              /\ ReturnErr("failed to create buffer")
              /\ UNCHANGED <<buffers, positions_buffer>>
    /\ UNCHANGED <<shaders, programs, array_buffer, current_program,
                   shadervars, infovars, camera>>

\* init_buffers uploading without binding the new buffer first
InitBuffersBindSkipped ==
    /\ pc = <<"init_buffers", "bind_buffer">>
    /\ Goto("init_buffers", "buffer_data")
    /\ Continue
    /\ UNCHANGED <<context, calls, glvars, shadervars, infovars,
                   positions_buffer, camera>>

InitBuffersBind ==
    /\ pc = <<"init_buffers", "bind_buffer">>
    /\ array_buffer' = positions_buffer
    /\ Issue("bind_buffer", <<"ARRAY_BUFFER", positions_buffer>>, None)
    /\ Goto("init_buffers", "buffer_data")
    /\ Continue
    /\ UNCHANGED <<shaders, programs, buffers, current_program,
                   shadervars, infovars, positions_buffer, camera>>

\* the data goes to whatever buffer is bound to ARRAY_BUFFER
InitBuffersData ==
    /\ pc = <<"init_buffers", "buffer_data">>
    /\ buffers' = IF array_buffer = NoHandle THEN buffers
                  ELSE [buffers EXCEPT ![array_buffer] =
                          [data |-> vertices, usage |-> "STATIC_DRAW"]]
    /\ Issue("buffer_data", <<"ARRAY_BUFFER", vertices, "STATIC_DRAW">>, None)
    /\ Goto("start", "Camera::new")
    /\ Continue
    /\ UNCHANGED <<shaders, programs, array_buffer, current_program,
                   shadervars, infovars, positions_buffer, camera>>

----------------------------------------------------------------------------
\* Camera (mod camera)

DefaultCamera == [position |-> <<0, 0, 0>>, orientation |-> "identity"]

\* view(): the inverse of the camera's world transform; with the identity
\* orientation that is the translation by -position (column-major)
View(c) ==
    << 10, 0, 0, 0,   0, 10, 0, 0,   0, 0, 10, 0,
       0 - c.position[1], 0 - c.position[2], 0 - c.position[3], 10 >>

CameraNew ==
    /\ pc = <<"start", "Camera::new">>
    /\ camera' = DefaultCamera
    /\ Goto("clear_scene", "clear_color")
    /\ Continue
    /\ UNCHANGED <<context, calls, glvars, shadervars, infovars, positions_buffer>>

----------------------------------------------------------------------------
\* render_scene: clear_scene, prepare_scene (with set_uniforms), draw_scene

ClearSceneColor ==
    /\ pc = <<"clear_scene", "clear_color">>
    /\ Issue("clear_color", <<0, 0, 0, 10>>, None)
    /\ Goto("clear_scene", "clear")
    /\ Continue
    /\ UNCHANGED <<glvars, shadervars, infovars, positions_buffer, camera>>

\* clear_scene that sets the clear colour but never clears
ClearSceneNoClear ==
    /\ pc = <<"clear_scene", "clear">>
    /\ Goto("prepare_scene", "bind_buffer")
    /\ Continue
    /\ UNCHANGED <<context, calls, glvars, shadervars, infovars, positions_buffer, camera>>

ClearSceneClear ==
    /\ pc = <<"clear_scene", "clear">>
    /\ Issue("clear", <<"COLOR_BUFFER_BIT">>, None)
    /\ Goto("prepare_scene", "bind_buffer")
    /\ Continue
    /\ UNCHANGED <<glvars, shadervars, infovars, positions_buffer, camera>>

\* prepare_scene uploading the vertex data again on every frame
PrepareBindUpload ==
    /\ pc = <<"prepare_scene", "bind_buffer">>
    /\ array_buffer' = positions_buffer
    /\ buffers' = [buffers EXCEPT ![positions_buffer] =
                     [data |-> vertices, usage |-> "DYNAMIC_DRAW"]]
    /\ calls' = calls
                  \o << Call("bind_buffer", <<"ARRAY_BUFFER", positions_buffer>>, None),
                        Call("buffer_data", <<"ARRAY_BUFFER", vertices, "DYNAMIC_DRAW">>, None) >>
    /\ Goto("prepare_scene", "use_program")
    /\ Continue
    /\ UNCHANGED <<context, shaders, programs, current_program,
                   shadervars, infovars, positions_buffer, camera>>

\* prepare_scene unbinding ARRAY_BUFFER: bind_buffer(ARRAY_BUFFER, None)
PrepareBindNone ==
    /\ pc = <<"prepare_scene", "bind_buffer">>
    /\ array_buffer' = NoHandle
    /\ Issue("bind_buffer", <<"ARRAY_BUFFER", NoHandle>>, None)
    /\ Goto("prepare_scene", "use_program")
    /\ Continue
    /\ UNCHANGED <<shaders, programs, buffers, current_program,
                   shadervars, infovars, positions_buffer, camera>>

PrepareBindBuffer ==
    /\ pc = <<"prepare_scene", "bind_buffer">>
    /\ array_buffer' = positions_buffer
    /\ Issue("bind_buffer", <<"ARRAY_BUFFER", positions_buffer>>, None)
    /\ Goto("prepare_scene", "use_program")
    /\ Continue
    /\ UNCHANGED <<shaders, programs, buffers, current_program,
                   shadervars, infovars, positions_buffer, camera>>

\* prepare_scene with use_program(None)
PrepareUseNone ==
    /\ pc = <<"prepare_scene", "use_program">>
    /\ current_program' = NoHandle
    /\ Issue("use_program", <<NoHandle>>, None)
    /\ Goto("prepare_scene", "vertex_attrib_pointer")
    /\ Continue
    /\ UNCHANGED <<shaders, programs, buffers, array_buffer,
                   shadervars, infovars, positions_buffer, camera>>

PrepareUseProgram ==
    /\ pc = <<"prepare_scene", "use_program">>
    /\ current_program' = program_info
    /\ Issue("use_program", <<program_info>>, None)
    /\ Goto("prepare_scene", "vertex_attrib_pointer")
    /\ Continue
    /\ UNCHANGED <<shaders, programs, buffers, array_buffer,
                   shadervars, infovars, positions_buffer, camera>>

PrepareVertexAttribPointer ==
    /\ pc = <<"prepare_scene", "vertex_attrib_pointer">>
    /\ Issue("vertex_attrib_pointer",
             <<attrib_locations["vertex_position"], 3, "FLOAT", FALSE, 0, 0>>, None)
    /\ Goto("prepare_scene", "enable_vertex_attrib_array")
    /\ Continue
    /\ UNCHANGED <<glvars, shadervars, infovars, positions_buffer, camera>>

PrepareEnableVertexAttribArray ==
    /\ pc = <<"prepare_scene", "enable_vertex_attrib_array">>
    /\ Issue("enable_vertex_attrib_array", <<attrib_locations["vertex_position"]>>, None)
    /\ Goto("set_uniforms", "uniform4fv")
    /\ Continue
    /\ UNCHANGED <<glvars, shadervars, infovars, positions_buffer, camera>>

\* set_uniform(context, program_info, "colour", ..)
SetUniformColour ==
    /\ pc = <<"set_uniforms", "uniform4fv">>
    /\ Issue("uniform4fv", <<Get(uniform_locations, "colour"), colour>>, None)
    /\ Goto("set_uniforms", "uniform_matrix4fv")
    /\ Continue
    /\ UNCHANGED <<glvars, shadervars, infovars, positions_buffer, camera>>

SetUniformsMatrix ==
    /\ pc = <<"set_uniforms", "uniform_matrix4fv">>
    /\ Issue("uniform_matrix4fv",
             <<Get(uniform_locations, "model_view_matrix"), FALSE, model_view_matrix>>, None)
    /\ Goto("draw_scene", "draw_arrays")
    /\ Continue
    /\ UNCHANGED <<glvars, shadervars, infovars, positions_buffer, camera>>

\* draw_scene drawing the four vertices as a triangle list
DrawSceneTriangles ==
    /\ pc = <<"draw_scene", "draw_arrays">>
    /\ Issue("draw_arrays", <<"TRIANGLES", 0, vertex_count>>, None)
    /\ Goto("start", "return")
    /\ Continue
    /\ UNCHANGED <<glvars, shadervars, infovars, positions_buffer, camera>>

DrawScene ==
    /\ pc = <<"draw_scene", "draw_arrays">>
    /\ Issue("draw_arrays", <<"TRIANGLE_STRIP", 0, vertex_count>>, None)
    /\ Goto("start", "return")
    /\ Continue
    /\ UNCHANGED <<glvars, shadervars, infovars, positions_buffer, camera>>

\* start calling render_scene a second time before returning
StartRenderAgain ==
    /\ pc = <<"start", "return">>
    /\ IF Cardinality({i \in 1..Len(calls) : calls[i].op = "draw_arrays"}) < 2
       THEN Goto("clear_scene", "clear_color") /\ Continue
       ELSE pc' = <<"start", "done">> /\ result' = "ok" /\ UNCHANGED error
    /\ UNCHANGED <<context, calls, glvars, shadervars, infovars,
                   positions_buffer, camera>>

\* Ok(())
StartReturn ==
    /\ pc = <<"start", "return">>
    /\ pc' = <<"start", "done">>
    /\ result' = "ok"
    /\ UNCHANGED <<context, error, calls, glvars, shadervars, infovars,
                   positions_buffer, camera>>

Next ==
    \/ InitContext
    \/ \E t \in ShaderTypes : LoadShaderCreate(t)
    \/ \E t \in ShaderTypes : LoadShaderSource(t)
    \/ \E t \in ShaderTypes : LoadShaderCompile(t)
    \/ \E t \in ShaderTypes : LoadShaderStatus(t)
    \/ \E t \in ShaderTypes : LoadShaderInfoLog(t)
    \/ InitProgCreate
    \/ \E t \in ShaderTypes : InitProgAttach(t)
    \/ InitProgLink
    \/ InitProgStatus
    \/ InitProgInfoLog
    \/ NewGetAttribLocation
    \/ NewGetUniformColour
    \/ NewGetUniformMatrix
    \/ InitBuffersCreate
    \/ InitBuffersBind
    \/ InitBuffersData
    \/ CameraNew
    \/ ClearSceneColor
    \/ ClearSceneClear
    \/ PrepareBindBuffer
    \/ PrepareUseProgram
    \/ PrepareVertexAttribPointer
    \/ PrepareEnableVertexAttribArray
    \/ SetUniformColour
    \/ SetUniformsMatrix
    \/ DrawScene
    \/ StartReturn

Spec == Init /\ [][Next]_vars

\* start runs on one thread and no context call blocks: a step that can be
\* taken is taken
FairSpec == Spec /\ WF_vars(Next)

----------------------------------------------------------------------------
\* The calls of the render pass and other views of the call record

RenderFns == {"clear_scene", "prepare_scene", "set_uniforms", "draw_scene"}

IsRenderCall(c) == c.fn \in RenderFns

\* the context calls issued by render_scene, in order
Frame == SelectSeq(calls, IsRenderCall)

Positions(seq, ops) == {i \in 1..Len(seq) : seq[i].op \in ops}

BindOps == {"bind_buffer", "use_program"}
AttribOps == {"vertex_attrib_pointer", "enable_vertex_attrib_array"}
UniformOps == {"uniform4fv", "uniform_matrix4fv"}
LinkStageOps == {"create_program", "attach_shader", "link_program"}

\* render_scene has returned
RenderReturned == pc = <<"start", "return">> \/ result = "ok"

\* some shader stage reported COMPILE_STATUS false
CompileFailed ==
    \E i \in Positions(calls, {"get_shader_parameter"}) : calls[i].ret = FALSE

----------------------------------------------------------------------------
\* C1: in the render call the context calls go clear, then the binds of the
\* buffer and the program, then the two uniform uploads, then the draw: the
\* clear precedes every bind, each uniform upload comes after use_program of
\* the program the uniform belongs to and before the draw, and draw_arrays
\* is the last call of the frame.
C1_RenderOrder ==
    LET F == Frame IN
    /\ \A i \in Positions(F, BindOps) :
         \E j \in Positions(F, {"clear"}) : j < i
    /\ \A i \in Positions(F, UniformOps) :
         /\ \E j \in Positions(F, {"use_program"}) :
              /\ j < i
              /\ F[j].args[1] = F[i].args[1].program
              /\ F[j].args[1] # NoHandle
         /\ F[i].prog = F[i].args[1].program
         /\ \E j \in Positions(F, {"bind_buffer"}) : j < i
         /\ \A j \in Positions(F, {"draw_arrays"}) : i < j
    /\ \A i \in Positions(F, {"draw_arrays"}) : i = Len(F)
    /\ RenderReturned =>
         /\ Len(F) > 0
         /\ F[Len(F)].op = "draw_arrays"
         /\ Positions(F, {"uniform4fv"}) # {}
         /\ Positions(F, {"uniform_matrix4fv"}) # {}

C1_Witness ==
    /\ result = "ok"
    /\ Len(Frame) = 9
    /\ Frame[Len(Frame)].op = "draw_arrays"

\* C2: once the four-corner quad is uploaded, a render call issues exactly
\* one draw call, and it is draw_arrays(TRIANGLE_STRIP, 0, 4); never zero,
\* never more than one.
C2_OneDraw ==
    LET D == Positions(calls, {"draw_arrays"}) IN
    /\ Cardinality(D) <= 1
    /\ \A i \in D :
         /\ calls[i].args = <<"TRIANGLE_STRIP", 0, 4>>
         /\ calls[i].bound # NoHandle
         /\ buffers[calls[i].bound].data =
              << -5, 5, 0,   5, 5, 0,   -5, -5, 0,   5, -5, 0 >>
    /\ RenderReturned => Cardinality(D) = 1

C2_Witness ==
    /\ RenderReturned
    /\ Cardinality(Positions(calls, {"draw_arrays"})) = 1
    /\ buffers[positions_buffer].data = vertices

\* C3: vertex_attrib_pointer and enable_vertex_attrib_array are issued only
\* after the render call bound its buffer to ARRAY_BUFFER, that buffer is
\* the bound one when they are issued, and the pointer has the 3-component
\* float layout.
C3_PointerAfterBind ==
    \A i \in Positions(calls, AttribOps) :
        /\ \E j \in Positions(calls, {"bind_buffer"}) :
             /\ j < i
             /\ calls[j].fn = "prepare_scene"
             /\ calls[j].args = <<"ARRAY_BUFFER", positions_buffer>>
        /\ positions_buffer # NoHandle
        /\ calls[i].bound = positions_buffer
        /\ calls[i].op = "vertex_attrib_pointer" =>
             /\ calls[i].args[2] = 3
             /\ calls[i].args[3] = "FLOAT"

C3_Witness ==
    /\ Positions(calls, {"vertex_attrib_pointer"}) # {}
    /\ Positions(calls, {"enable_vertex_attrib_array"}) # {}

\* C4: the slot passed to vertex_attrib_pointer and enable_vertex_attrib_array
\* is the one get_attrib_location returned for the program that is in use
\* when the call is made.
C4_SlotOfProgramInUse ==
    \A i \in Positions(calls, AttribOps) :
        /\ calls[i].prog # NoHandle
        /\ \E j \in Positions(calls, {"get_attrib_location"}) :
             /\ j < i
             /\ calls[j].args = <<calls[i].prog, "a_vertex_position">>
             /\ calls[i].args[1] = AsU32(calls[j].ret)

C4_Witness ==
    \E i \in Positions(calls, {"enable_vertex_attrib_array"}) :
        /\ calls[i].args[1] = <<0, 1>>
        /\ programs[calls[i].prog].attrib = 1

\* C5: when a shader stage fails to compile, load_shader returns an error
\* and start returns it without reaching the link stage: no create_program,
\* attach_shader or link_program is ever issued.
C5_CompileFailureStopsBeforeLink ==
    CompileFailed =>
        /\ Positions(calls, LinkStageOps) = {}
        /\ programs = <<>>
        /\ result \in {"running", "err"}
        /\ result = "running" => pc[2] = "get_shader_info_log"

C5_Witness ==
    /\ CompileFailed
    /\ result = "err"
    /\ Len(shaders) = 2
    /\ error = Diagnostics[1]

\* the context reported no attribute a_vertex_position
AttribLookupFailed ==
    \E i \in Positions(calls, {"get_attrib_location"}) : calls[i].ret = -1

\* the context reported no location for some expected uniform
UniformLookupFailed ==
    \E i \in Positions(calls, {"get_uniform_location"}) : calls[i].ret = NoLocation

\* C6: when the attribute lookup reports none, ProgramInfo::new fails with a
\* lookup error: no ProgramInfo with an invalid vertex_position slot is
\* produced and no render call runs with one.
C6_MissingAttribFailsConstruction ==
    AttribLookupFailed =>
        /\ program_info = NoHandle
        /\ Frame = <<>>

\* C7: when an expected uniform is absent, program construction returns a
\* lookup error that start returns to its caller: an Err, not an abort.
C7_MissingUniformReturnsErr ==
    UniformLookupFailed =>
        /\ result = "err"
        /\ pc = <<"start", "done">>

\* the linked program exposes only the combined matrix uniform, no colour
VariantB(p) ==
    /\ programs[p].status
    /\ programs[p].attrib >= 0
    /\ programs[p].uniforms = {"u_model_view_matrix"}

\* C8: for a program exposing only the combined matrix uniform (no colour
\* uniform) construction succeeds and the render call uploads the matrix
\* and no colour; a lookup error is reported only when neither uniform set
\* resolves.
C8_VariantBSupported ==
    \A p \in DOMAIN programs :
        VariantB(p) =>
            /\ result \in {"running", "ok"} \/ error = "failed to create buffer"
            /\ pc[1] \in {"init_buffers", "start"} /\ result # "err" =>
                 program_info = p
            /\ Positions(calls, {"uniform4fv"}) = {}

\* C9: the matrix uploaded to the model-view uniform is the view matrix of
\* the camera passed to the render call; for the default camera it is the
\* identity.
C9_UploadsCameraView ==
    \A i \in Positions(calls, {"uniform_matrix4fv"}) :
        /\ calls[i].args[3] = View(camera)
        /\ camera = DefaultCamera => calls[i].args[3] = Identity

\* C10: when init_context fails, start stops before any GPU resource
\* exists: no shader, program or buffer is created, no context call and no
\* render call is made.
C10_InitFailureNoResource ==
    context \in {"Err", "panic"} =>
        /\ calls = <<>>
        /\ shaders = <<>> /\ programs = <<>> /\ buffers = <<>>
        /\ pc = <<"start", "done">>
        /\ result \in {"err", "panic"}

C10_Witness ==
    /\ context = "Err"
    /\ result = "err"

\* the context call at position i of the record reports a failed setup step
SetupFailedAt(i) ==
    LET c == calls[i] IN
    \/ c.op = "get_shader_parameter" /\ c.ret = FALSE
    \/ c.op = "create_program" /\ c.ret = NoHandle
    \/ c.op = "get_program_parameter" /\ c.ret = FALSE
    \/ c.op = "get_attrib_location" /\ c.ret = -1
    \/ c.op = "get_uniform_location" /\ c.ret = NoLocation
    \/ c.op = "create_buffer" /\ c.ret = NoHandle

InfoLogOps == {"get_shader_info_log", "get_program_info_log"}

\* C11: every setup error halts forward progress: once a shader compile,
\* the program creation or link, a location lookup or the buffer allocation
\* has failed, no later setup step runs (only the diagnostic is read) and no
\* call of a render pass is ever issued.
C11_SetupErrorHalts ==
    \A i \in 1..Len(calls) :
        SetupFailedAt(i) =>
            /\ \A j \in (i + 1)..Len(calls) : calls[j].op \in InfoLogOps
            /\ Frame = <<>>
            /\ result # "ok"

\* some program reported LINK_STATUS false
LinkFailed ==
    \E i \in Positions(calls, {"get_program_parameter"}) : calls[i].ret = FALSE

\* C12: init_shader_program yields the program only when LINK_STATUS is
\* true; on link failure it returns an error carrying the program's info log
\* (a fixed text when the context has none), and no attribute or uniform
\* location is ever looked up in a program that failed to link.
C12_LinkFailureIsError ==
    /\ \A i \in Positions(calls, {"get_attrib_location", "get_uniform_location"}) :
         programs[calls[i].args[1]].status
    /\ program_info # NoHandle => programs[program_info].status
    /\ LinkFailed =>
         /\ result \in {"running", "err"}
         /\ result = "running" => pc = <<"init_shader_program", "get_program_info_log">>
         /\ result = "err" =>
              error = IF programs[program].log = None
                      THEN "Unknown error creating program object"
                      ELSE programs[program].log
         /\ calls[Len(calls)].op \in {"get_program_parameter", "get_program_info_log"}

C12_Witness ==
    /\ LinkFailed
    /\ result = "err"
    /\ error = Diagnostics[1]
    /\ programs[program].log = Diagnostics[1]

\* C13: start always terminates, and when every setup step succeeded it has
\* rendered exactly one frame (one clear, one draw call, the nine calls of
\* one render pass) when it returns Ok; there is never a second frame.
C13_TerminatesAfterOneFrame ==
    /\ <>(pc = <<"start", "done">> /\ result # "running")
    /\ [](/\ Cardinality(Positions(calls, {"draw_arrays"})) <= 1
          /\ Cardinality(Positions(calls, {"clear"})) <= 1
          /\ result = "ok" =>
               /\ Cardinality(Positions(calls, {"draw_arrays"})) = 1
               /\ Cardinality(Positions(calls, {"clear"})) = 1
               /\ Len(Frame) = 9
               /\ pc = <<"start", "done">>)

C13_Witness ==
    /\ pc = <<"start", "done">>
    /\ result = "ok"
    /\ Cardinality(Positions(calls, {"draw_arrays"})) = 1

\* the context calls that create, fill or link a GPU resource
ResourceOps ==
    {"create_buffer", "create_shader", "create_program", "buffer_data",
     "shader_source", "compile_shader", "attach_shader", "link_program"}

\* C14: a render call only reads the GPU resources: while render_scene runs
\* no buffer, shader or program is created, no buffer data is uploaded,
\* nothing is linked, and the attribute and uniform location maps of the
\* program info stay as they were.
C14_RenderIsReadOnly ==
    [][pc[1] \in RenderFns =>
         /\ shaders' = shaders
         /\ programs' = programs
         /\ buffers' = buffers
         /\ attrib_locations' = attrib_locations
         /\ uniform_locations' = uniform_locations
         /\ program_info' = program_info
         /\ positions_buffer' = positions_buffer
         /\ \A i \in (Len(calls) + 1)..Len(calls') :
              calls'[i].op \notin ResourceOps]_vars

C14_Witness ==
    /\ RenderReturned
    /\ Len(Frame) = 9
    /\ buffers[positions_buffer].data = vertices
    /\ DOMAIN uniform_locations = {"colour", "model_view_matrix"}

\* C15: geometry is written once: vertex data is uploaded at most once, by
\* init_buffers and before any call of the render pass, with STATIC_DRAW,
\* while the buffer create_buffer just returned is bound to ARRAY_BUFFER, so
\* the data is in the buffer init_buffers returns; when create_buffer fails
\* there is no bind and no upload.
C15_GeometryWrittenOnce ==
    LET U == Positions(calls, {"buffer_data"}) IN
    /\ Cardinality(U) <= 1
    /\ \A i \in U :
         /\ calls[i].fn = "init_buffers"
         /\ calls[i].args[3] = "STATIC_DRAW"
         /\ calls[i].bound # NoHandle
         /\ calls[i].bound = positions_buffer
         /\ \E j \in Positions(calls, {"create_buffer"}) :
              j < i /\ calls[j].ret = calls[i].bound
         /\ \A j \in 1..Len(calls) : IsRenderCall(calls[j]) => i < j
         /\ buffers[positions_buffer].data = calls[i].args[2]
         /\ buffers[positions_buffer].usage = "STATIC_DRAW"
    /\ \A i \in 1..Len(calls) : IsRenderCall(calls[i]) => U # {}
    /\ \A i \in Positions(calls, {"create_buffer"}) :
         calls[i].ret = NoHandle =>
             Positions(calls, {"bind_buffer", "buffer_data"}) = {}

C15_Witness ==
    /\ Cardinality(Positions(calls, {"buffer_data"})) = 1
    /\ buffers[positions_buffer].data = vertices
    /\ result = "ok"

\* C16 as claimed: when a shader stage fails to compile, the returned error
\* is the context's compiler log, unmodified, and it is not empty.
C16_LogUnmodifiedNonEmpty ==
    CompileFailed /\ result = "err" =>
        /\ shaders[shader].log # None => error = shaders[shader].log
        /\ error # ""

\* C16 as amended: when a shader stage fails to compile, the returned error
\* is the context's compiler log, unmodified, or the fixed text "Unknown
\* error creating shader" when the context returns no log; it is non-empty
\* unless the context's log is the empty text.
C16_LogUnmodified ==
    CompileFailed /\ result = "err" =>
        /\ error = IF shaders[shader].log = None
                   THEN "Unknown error creating shader"
                   ELSE shaders[shader].log
        /\ shaders[shader].log # "" => error # ""

C16_Witness ==
    /\ CompileFailed
    /\ result = "err"
    /\ shaders[shader].type = "FRAGMENT_SHADER"
    /\ shaders[shader].log = Diagnostics[1]
    /\ error = Diagnostics[1]

\* C18: at every draw call the buffer bound to ARRAY_BUFFER is the one
\* init_buffers created and filled, and the number of vertices drawn is the
\* number uploaded: the uploaded float count divided by the component count
\* of the attribute pointer (3).
C18_DrawMatchesBuffer ==
    \A i \in Positions(calls, {"draw_arrays"}) :
        /\ calls[i].bound # NoHandle
        /\ \E j \in Positions(calls, {"create_buffer"}) :
             j < i /\ calls[j].fn = "init_buffers" /\ calls[j].ret = calls[i].bound
        /\ \E j \in Positions(calls, {"buffer_data"}) :
             /\ j < i
             /\ calls[j].bound = calls[i].bound
             /\ buffers[calls[i].bound].data = calls[j].args[2]
        /\ \E j \in Positions(calls, {"vertex_attrib_pointer"}) :
             /\ j < i
             /\ calls[j].args[2] = 3
             /\ Len(buffers[calls[i].bound].data) = calls[j].args[2] * calls[i].args[3]
        /\ calls[i].args[2] = 0
        /\ calls[i].args[3] > 0

C18_Witness ==
    \E i \in Positions(calls, {"draw_arrays"}) :
        /\ calls[i].bound = positions_buffer
        /\ Len(buffers[positions_buffer].data) = 12
        /\ calls[i].args[3] = 4

====
